---- MODULE Spec2Model ----
(***************************************************************************)
(* Model of the chat client of messaging-client-and-server:                *)
(*   ChatState          (chat.messages.js 462-522)                         *)
(*   ChatMessages       (chat.messages.js 182-406)                         *)
(*   ChatConversations  (chat.conversations.js 142-470)                    *)
(*   Utils storage      (utils.js 102-135)                                 *)
(* The remote API is the environment: it serves each outstanding request   *)
(* at an arbitrary moment and the responses are processed by the client    *)
(* in an arbitrary order, one callback at a time.                          *)
(***************************************************************************)
EXTENDS Integers, Sequences, FiniteSets

VARIABLES
    currentUser,              \* ChatState.currentUser: {} (null) or {id}
    currentConversation,      \* ChatState.currentConversation: {} (null) or {id of the object}
    currentConversationType,  \* ChatState.currentConversationType
    conversations,            \* ChatState.conversations
    groups,                   \* ChatState.groups
    messages,                 \* ChatState.messages: thread id -> list
    activeTab,                \* ChatConversations.activeTab
    storage,                  \* localStorage keys conversations, groups, messages
    banner,                   \* text of the banner shown by _showSendError, "" if none
    sends,                    \* the invocations of ChatMessages.send that reached fetch, in call order
    acks,                     \* indices of sends in the order their responses were processed
    timers,                   \* pending setTimeout(_refreshMessages(chatId), 500)
    refreshes,                \* outstanding GET /api/messages?chat_id= requests, in call order
    fetches,                  \* outstanding GET /api/messages and GET /api/chats requests, in call order
    srvMessages,              \* server: chat id -> stored messages
    srvNextId,                \* server: next message_id
    clock,                    \* wall clock, in seconds
    sidebar,                  \* the rows of #conversationsList: data-id and data-type of each
    quota,                    \* localStorage: the keys whose setItem throws (quota exceeded)
    created,                  \* number of ids Utils.generateId has made for new threads
    refreshDisabled,          \* #refreshConvsBtn.disabled
    pane,                     \* #messagesContainer: the list ChatMessages.render drew last
    page,                     \* the page load: pc of the initialiser, localStorage key user,
                              \* number of loads so far, the thread selected when the
                              \* previous page was left
    last                      \* the step that ran last: handler, thread or tab, outcome, input

vars == <<currentUser, currentConversation, currentConversationType,
          conversations, groups, messages, activeTab, storage, banner,
          sends, acks, timers, refreshes, fetches,
          srvMessages, srvNextId, clock, sidebar, quota, created,
          refreshDisabled, pane, page>>


----------------------------------------------------------------------------
(* Bounds *)

MaxSends     == 2      \* invocations of send that reach the network
MaxRefreshes == 1      \* message-history requests outstanding at once
MaxFetches   == 2      \* collection requests outstanding at once
MaxClock     == 2      \* last second of the wall clock
MaxCreates   == 1      \* threads created through the modals
MaxLoads     == 2      \* loads of the chat page

(* Program constants *)

MaxTextLength == 10000

----------------------------------------------------------------------------
(* Strings of the message input, run-length encoded: a sequence of runs    *)
(* [ch, n]; ch = " " stands for any white space character.                 *)

Run(c, k) == [ch |-> c, n |-> k]

RECURSIVE StrLen(_)
StrLen(s) == IF s = <<>> THEN 0 ELSE Head(s).n + StrLen(Tail(s))

RECURSIVE TrimStart(_)
TrimStart(s) ==
    IF s = <<>> THEN <<>>
    ELSE IF Head(s).ch = " " THEN TrimStart(Tail(s)) ELSE s

RECURSIVE TrimEnd(_)
TrimEnd(s) ==
    IF s = <<>> THEN <<>>
    ELSE IF s[Len(s)].ch = " " THEN TrimEnd(SubSeq(s, 1, Len(s) - 1)) ELSE s

Trim(s) == TrimEnd(TrimStart(s))

----------------------------------------------------------------------------
(* Values *)

Me       == 7                       \* user_id of the session's user
Other    == 8                       \* another user's id
DmIds    == {1, 2}                  \* chat ids the server lists under /api/messages
GroupIds == {3}                     \* chat ids the server lists under /api/chats
ChatIds  == DmIds \cup GroupIds

\* String(n) and parseInt(s) over the chat ids
StringOf(n) == CASE n = 1 -> "1" [] n = 2 -> "2" [] n = 3 -> "3" [] OTHER -> "0"
ParseInt(s) == CASE s = "1" -> 1 [] s = "2" -> 2 [] s = "3" -> 3 [] OTHER -> 0

ThreadIds == {StringOf(n) : n \in ChatIds}

\* a ?? b, with an absent (undefined or null) value written {} and a present one {v}
Coalesce(a, b) == IF a = {} THEN b ELSE CHOOSE v \in a : TRUE

\* Date.now(), in ms, when the wall clock shows second c
DateNow(c) == c * 1000

\* Utils.generateId(): an id no server id equals
GenerateId(c) == 0 - (DateNow(c) + 1)

NoConversationMsg == "No conversation selected. Please select one first."
TooLongMsg        == "Message is too long (max 10,000 characters)."

\* what the user can have typed into #messageInput
Inputs ==
    { <<>>,
      <<Run(" ", 2)>>,
      <<Run("A", 1)>>,
      <<Run(" ", 1), Run("B", 1), Run(" ", 1)>>,
      <<Run("A", MaxTextLength)>>,
      <<Run(" ", 1), Run("A", MaxTextLength), Run(" ", 1)>>,
      <<Run("A", MaxTextLength + 1)>>,
      <<Run(" ", 1), Run("A", MaxTextLength + 1)>> }

\* two short inputs that pass the validation of send
ShortInputs == { <<Run("A", 1)>>, <<Run(" ", 1), Run("B", 1), Run(" ", 1)>> }

Event(o, i, r) == [op |-> o, id |-> i, res |-> r, arg |-> <<>>]

SendEvent(i, r, input) == [op |-> "send", id |-> i, res |-> r, arg |-> input]

RemoveAt(s, k) == SubSeq(s, 1, k - 1) \o SubSeq(s, k + 1, Len(s))

\* bookkeeping, not program state: when the response of request k is applied, the
\* requests for the same target that were issued before it become overtaken
OvertakeFetches(reqs, k) ==
    [j \in 1..Len(reqs) |->
        IF j < k /\ reqs[j].tab = reqs[k].tab
        THEN [reqs[j] EXCEPT !.overtaken = TRUE] ELSE reqs[j]]

OvertakeHistory(reqs, k) ==
    [j \in 1..Len(reqs) |->
        IF j < k /\ reqs[j].chatId = reqs[k].chatId
        THEN [reqs[j] EXCEPT !.overtaken = TRUE] ELSE reqs[j]]

----------------------------------------------------------------------------
(* ChatState *)

StorageKeys == {"conversations", "groups", "messages"}

\* JSON.stringify(value): the text of a value built from arrays, objects, strings,
\* finite numbers, booleans and null, which is all the Store holds
JsonStringify(value) == [json |-> value]

\* JSON.parse(item) of such a text
JsonParse(item) == item.json

\* Utils.setStorage: the write, or nothing when setItem threw (caught and logged)
SetStorage(st, key, value, ok) ==
    IF ok THEN [st EXCEPT ![key] = {JsonStringify(value)}] ELSE st

SaveSwapped(st, c, g, m, failed) ==
    LET s1 == SetStorage(st, "conversations", g, "conversations" \notin failed)
        s2 == SetStorage(s1, "groups", c, "groups" \notin failed)
    IN SetStorage(s2, "messages", m, "messages" \notin failed)

\* ChatState.save: Utils.setStorage three times; failed = the keys whose write threw
Save(st, c, g, m, failed) ==
    LET s1 == SetStorage(st, "conversations", c, "conversations" \notin failed)
        s2 == SetStorage(s1, "groups", g, "groups" \notin failed)
    IN SetStorage(s2, "messages", m, "messages" \notin failed)

----------------------------------------------------------------------------
(* ChatConversations: rendering *)

\* ChatConversations._renderList: one row per item, none for the empty state
RenderList(items, type) ==
    [k \in 1..Len(items) |-> [id |-> items[k].id, type |-> type]]

RenderBoth(tab, convs, grps) == RenderList(convs, "dm") \o RenderList(grps, "groups")

\* ChatConversations.render: the list of the active tab
Render(tab, convs, grps) ==
    IF tab = "dm" THEN RenderList(convs, "dm") ELSE RenderList(grps, "groups")

\* Array.prototype.find(c => c.id === id): index of the first match, 0 if none
Find(items, id) ==
    IF \E k \in 1..Len(items) : items[k].id = id
    THEN CHOOSE k \in 1..Len(items) :
            items[k].id = id /\ \A j \in 1..(k - 1) : items[j].id # id
    ELSE 0

\* ChatState.getMessages
GetMessages(m, id) == IF id \in DOMAIN m THEN m[id] ELSE <<>>

\* ChatState.addMessage
AddMessage(m, id, msg) ==
    [k \in DOMAIN m \cup {id} |->
        IF k = id THEN Append(GetMessages(m, id), msg) ELSE m[k]]

\* ChatState.messages[id] = list
SetMessages(m, id, list) ==
    [k \in DOMAIN m \cup {id} |-> IF k = id THEN list ELSE m[k]]

----------------------------------------------------------------------------
(* ChatMessages *)

FromApiAnySender(msg, user) ==
    [ id        |-> msg.id,
      text      |-> msg.content,
      content   |-> {msg.content},
      timestamp |-> msg.sent_at * 1000,
      isSent    |-> user = {} \/ {msg.sender_id} = user,
      sender_id |-> {msg.sender_id} ]

\* ChatMessages._fromApi
FromApi(msg, user) ==
    [ id        |-> msg.id,
      text      |-> msg.content,
      content   |-> {msg.content},
      timestamp |-> msg.sent_at * 1000,
      isSent    |-> user # {} /\ {msg.sender_id} = user,
      sender_id |-> {msg.sender_id} ]

\* messages.map(m => this._fromApi(m))
MapFromApi(body, user) == [k \in 1..Len(body) |-> FromApi(body[k], user)]

SentMessageLocalId(call, user, c) ==
    [ id        |-> GenerateId(c),
      text      |-> call.text,
      content   |-> {},
      timestamp |-> (IF call.sent_at # 0 THEN call.sent_at ELSE c) * 1000,
      isSent    |-> TRUE,
      sender_id |-> user ]

\* the message object built by send from the response { message_id, sent_at }
SentMessage(call, user, c) ==
    [ id        |-> IF call.message_id # 0 THEN call.message_id ELSE GenerateId(c),
      text      |-> call.text,
      content   |-> {},
      timestamp |-> (IF call.sent_at # 0 THEN call.sent_at ELSE c) * 1000,
      isSent    |-> TRUE,
      sender_id |-> user ]

TouchAll(items, id, text, c) ==
    [k \in 1..Len(items) |->
        [items[k] EXCEPT !.lastMessage = text, !.timestamp = DateNow(c)]]

\* conv.lastMessage = text; conv.timestamp = Date.now(), on the thread with this id
Touch(items, id, text, c) ==
    [k \in 1..Len(items) |->
        IF k = Find(items, id)
        THEN [items[k] EXCEPT !.lastMessage = text, !.timestamp = DateNow(c)]
        ELSE items[k]]

SendTextUntrimmed(input) == input

\* the text send validates: input.value.trim()
SendText(input) == Trim(input)

TooLongAtLimit(text) == StrLen(text) >= MaxTextLength

TooLongOffByOne(text) == StrLen(text) > MaxTextLength + 1

\* if (text.length > 10_000)
TooLong(text) == StrLen(text) > MaxTextLength

SendUnselected(input) ==
    LET text == SendText(input) IN
    /\ UNCHANGED <<currentUser, page, refreshDisabled, pane, quota, created, sidebar, currentConversation, currentConversationType,
                   conversations, groups, messages, activeTab, storage,
                   acks, timers, refreshes, fetches, srvMessages, srvNextId, clock>>
    /\ IF text = <<>>
       THEN /\ last' = SendEvent("", "empty", input)
            /\ UNCHANGED <<banner, sends>>
       ELSE IF TooLong(text)
       THEN /\ banner' = TooLongMsg
            /\ last' = SendEvent("", "tooLong", input)
            /\ UNCHANGED sends
       ELSE LET chatId == IF currentConversation = {} THEN ""
                              ELSE CHOOSE id \in currentConversation : TRUE IN
            /\ Len(sends) < MaxSends
            /\ sends' = Append(sends, [chatId |-> chatId, text |-> text, pc |-> "await",
                                       message_id |-> 0, sent_at |-> 0])
            /\ last' = SendEvent(chatId, "posted", input)
            /\ UNCHANGED banner

\* ChatMessages.send up to its first await: validation and the POST
Send(input) ==
    LET text == SendText(input) IN
    /\ UNCHANGED <<currentUser, page, refreshDisabled, pane, quota, created, sidebar, currentConversation, currentConversationType,
                   conversations, groups, messages, activeTab, storage,
                   acks, timers, refreshes, fetches, srvMessages, srvNextId, clock>>
    /\ IF text = <<>>
       THEN /\ last' = SendEvent("", "empty", input)
            /\ UNCHANGED <<banner, sends>>
       ELSE IF currentConversation = {}
       THEN /\ banner' = NoConversationMsg
            /\ last' = SendEvent("", "noConversation", input)
            /\ UNCHANGED sends
       ELSE IF TooLong(text)
       THEN /\ banner' = TooLongMsg
            /\ last' = SendEvent("", "tooLong", input)
            /\ UNCHANGED sends
       ELSE LET chatId == CHOOSE id \in currentConversation : TRUE IN
            /\ Len(sends) < MaxSends
            /\ sends' = Append(sends, [chatId |-> chatId, text |-> text, pc |-> "await",
                                       message_id |-> 0, sent_at |-> 0])
            /\ last' = SendEvent(chatId, "posted", input)
            /\ UNCHANGED banner

\* click on #sendBtn, which send disables while its request is outstanding
SendButton(input) ==
    /\ \A i \in 1..Len(sends) : sends[i].pc \in {"done", "failed"}
    /\ Send(input)

\* the server handles POST /api/messages/send, or the request fails: the fetch is
\* rejected or the response is not ok, which of the two shows when send resumes
ServeSend(i) ==
    /\ i \in 1..Len(sends)
    /\ sends[i].pc = "await"
    /\ UNCHANGED <<currentUser, page, refreshDisabled, pane, quota, created, sidebar, currentConversation, currentConversationType,
                   conversations, groups, messages, activeTab, storage, banner,
                   acks, timers, refreshes, fetches>>
    /\ \/ \E d \in 0..1 :
            LET chat == ParseInt(sends[i].chatId)
                now  == clock + d
                rec  == [id |-> srvNextId, content |-> sends[i].text,
                         sent_at |-> now, sender_id |-> Me]
            IN /\ chat \in ChatIds
               /\ now <= MaxClock
               /\ clock' = now
               /\ srvMessages' = [srvMessages EXCEPT ![chat] = Append(@, rec)]
               /\ srvNextId' = srvNextId + 1
               /\ sends' = [sends EXCEPT ![i].pc = "ok",
                                         ![i].message_id = rec.id,
                                         ![i].sent_at = rec.sent_at]
               /\ last' = Event("serveSend", sends[i].chatId, "ok")
       \/ /\ sends' = [sends EXCEPT ![i].pc = "error"]
          /\ last' = Event("serveSend", sends[i].chatId, "error")
          /\ UNCHANGED <<srvMessages, srvNextId, clock>>

SendOkToCurrent(i) ==
    /\ i \in 1..Len(sends)
    /\ sends[i].pc = "ok"
    /\ \E d \in 0..1 :
        LET call   == sends[i]
            now    == clock + d
            msg    == SentMessage(call, currentUser, now)
            inDm   == Find(conversations, call.chatId) # 0
            convs  == IF inDm THEN Touch(conversations, call.chatId, call.text, now)
                      ELSE conversations
            grps   == IF inDm THEN groups
                      ELSE Touch(groups, call.chatId, call.text, now)
            msgs   == AddMessage(messages,
                                 IF currentConversation = {} THEN call.chatId
                                 ELSE CHOOSE id \in currentConversation : TRUE, msg)
        IN /\ now <= MaxClock
           /\ clock' = now
           /\ messages' = msgs
           /\ conversations' = convs
           /\ groups' = grps
           /\ storage' = Save(storage, convs, grps, msgs, quota)
           /\ sidebar' = Render(activeTab, convs, grps)
           /\ pane' = GetMessages(msgs, call.chatId)
           /\ banner' = ""
           /\ timers' = Append(timers, call.chatId)
           /\ sends' = [sends EXCEPT ![i].pc = "done"]
           /\ acks' = Append(acks, i)
           /\ last' = Event("sendOk", call.chatId, "done")
    /\ UNCHANGED <<currentUser, page, refreshDisabled, quota, created, currentConversation, currentConversationType,
                   activeTab, refreshes, fetches, srvMessages, srvNextId>>

\* send after its awaits, response ok: lines 298-331
SendOk(i) ==
    /\ i \in 1..Len(sends)
    /\ sends[i].pc = "ok"
    /\ \E d \in 0..1 :
        LET call   == sends[i]
            now    == clock + d
            msg    == SentMessage(call, currentUser, now)
            inDm   == Find(conversations, call.chatId) # 0
            convs  == IF inDm THEN Touch(conversations, call.chatId, call.text, now)
                      ELSE conversations
            grps   == IF inDm THEN groups
                      ELSE Touch(groups, call.chatId, call.text, now)
            msgs   == AddMessage(messages, call.chatId, msg)
        IN /\ now <= MaxClock
           /\ clock' = now
           /\ messages' = msgs
           /\ conversations' = convs
           /\ groups' = grps
           /\ storage' = Save(storage, convs, grps, msgs, quota)
           /\ sidebar' = Render(activeTab, convs, grps)
           /\ pane' = GetMessages(msgs, call.chatId)
           /\ banner' = ""
           /\ timers' = Append(timers, call.chatId)
           /\ sends' = [sends EXCEPT ![i].pc = "done"]
           /\ acks' = Append(acks, i)
           /\ last' = Event("sendOk", call.chatId, "done")
    /\ UNCHANGED <<currentUser, page, refreshDisabled, quota, created, currentConversation, currentConversationType,
                   activeTab, refreshes, fetches, srvMessages, srvNextId>>

SendFailedRetries(i) ==
    /\ i \in 1..Len(sends)
    /\ sends[i].pc = "error"
    /\ banner' = ""
    /\ pane' = GetMessages(messages, sends[i].chatId)
    /\ sends' = [sends EXCEPT ![i].pc = "await"]
    /\ acks' = acks
    /\ \E kind \in {"network", "http"} :
           last' = Event("sendFailed", sends[i].chatId, kind)
    /\ UNCHANGED <<currentUser, page, refreshDisabled, quota, created, sidebar, currentConversation, currentConversationType,
                   conversations, groups, messages, activeTab, storage,
                   timers, refreshes, fetches, srvMessages, srvNextId, clock>>

SendFailedAppends(i) ==
    /\ i \in 1..Len(sends)
    /\ sends[i].pc = "error"
    /\ LET call == sends[i]
           msgs == AddMessage(messages, call.chatId,
                              SentMessage(call, currentUser, clock))
       IN /\ messages' = msgs
          /\ storage' = Save(storage, conversations, groups, msgs, quota)
          /\ pane' = GetMessages(msgs, call.chatId)
    /\ banner' = ""
    /\ sends' = [sends EXCEPT ![i].pc = "failed"]
    /\ acks' = Append(acks, i)
    /\ \E kind \in {"network", "http"} :
           last' = Event("sendFailed", sends[i].chatId, kind)
    /\ UNCHANGED <<currentUser, page, refreshDisabled, quota, created, sidebar, currentConversation, currentConversationType,
                   conversations, groups, activeTab,
                   timers, refreshes, fetches, srvMessages, srvNextId, clock>>

\* send after its awaits, fetch rejected or response not ok: lines 293-296, 333-336
SendFailed(i) ==
    /\ i \in 1..Len(sends)
    /\ sends[i].pc = "error"
    /\ banner' = ""
    /\ pane' = GetMessages(messages, sends[i].chatId)
    /\ sends' = [sends EXCEPT ![i].pc = "failed"]
    /\ acks' = Append(acks, i)
    /\ \E kind \in {"network", "http"} :
           last' = Event("sendFailed", sends[i].chatId, kind)
    /\ UNCHANGED <<currentUser, page, refreshDisabled, quota, created, sidebar, currentConversation, currentConversationType,
                   conversations, groups, messages, activeTab, storage,
                   timers, refreshes, fetches, srvMessages, srvNextId, clock>>

\* a new GET /api/messages?chat_id=&limit=50
HistoryRequest(chatId) ==
    [chatId |-> chatId, pc |-> "await", body |-> <<>>, overtaken |-> FALSE]

TimerFiresForCurrent(k) ==
    /\ k \in 1..Len(timers)
    /\ Len(refreshes) < MaxRefreshes
    /\ currentConversation # {}
    /\ LET chatId == CHOOSE id \in currentConversation : TRUE
       IN /\ refreshes' = Append(refreshes, HistoryRequest(chatId))
          /\ last' = Event("timer", chatId, "get")
    /\ timers' = RemoveAt(timers, k)
    /\ UNCHANGED <<currentUser, page, refreshDisabled, pane, quota, created, sidebar, currentConversation, currentConversationType,
                   conversations, groups, messages, activeTab, storage, banner,
                   sends, acks, fetches, srvMessages, srvNextId, clock>>

\* the timer set by send fires: _refreshMessages(chatId) up to its first await
TimerFires(k) ==
    /\ k \in 1..Len(timers)
    /\ Len(refreshes) < MaxRefreshes
    /\ refreshes' = Append(refreshes, HistoryRequest(timers[k]))
    /\ timers' = RemoveAt(timers, k)
    /\ last' = Event("timer", timers[k], "get")
    /\ UNCHANGED <<currentUser, page, refreshDisabled, pane, quota, created, sidebar, currentConversation, currentConversationType,
                   conversations, groups, messages, activeTab, storage, banner,
                   sends, acks, fetches, srvMessages, srvNextId, clock>>

\* ChatMessages.loadMessages(chatId) up to its first await
LoadMessages(chatId) ==
    /\ Len(refreshes) < MaxRefreshes
    /\ refreshes' = Append(refreshes, HistoryRequest(chatId))
    /\ last' = Event("loadMessages", chatId, "get")
    /\ UNCHANGED <<currentUser, page, refreshDisabled, pane, quota, created, sidebar, currentConversation, currentConversationType,
                   conversations, groups, messages, activeTab, storage, banner,
                   sends, acks, timers, fetches, srvMessages, srvNextId, clock>>

\* the server handles GET /api/messages?chat_id=, or the request fails
ServeHistory(k) ==
    /\ k \in 1..Len(refreshes)
    /\ refreshes[k].pc = "await"
    /\ \/ /\ ParseInt(refreshes[k].chatId) \in ChatIds
          /\ refreshes' = [refreshes EXCEPT
                             ![k].pc = "ok",
                             ![k].body = srvMessages[ParseInt(refreshes[k].chatId)]]
          /\ last' = Event("serveHistory", refreshes[k].chatId, "ok")
       \/ /\ refreshes' = [refreshes EXCEPT ![k].pc = "error"]
          /\ last' = Event("serveHistory", refreshes[k].chatId, "error")
    /\ UNCHANGED <<currentUser, page, refreshDisabled, pane, quota, created, sidebar, currentConversation, currentConversationType,
                   conversations, groups, messages, activeTab, storage, banner,
                   sends, acks, timers, fetches, srvMessages, srvNextId, clock>>

\* the list _refreshMessages and loadMessages store for the thread
RefreshedList(old, body, user) == MapFromApi(body, user)

\* _refreshMessages / loadMessages after the awaits, response ok
HistoryOk(k) ==
    /\ k \in 1..Len(refreshes)
    /\ refreshes[k].pc = "ok"
    /\ LET r    == refreshes[k]
           list == RefreshedList(GetMessages(messages, r.chatId), r.body, currentUser)
           msgs == SetMessages(messages, r.chatId, list)
       IN /\ messages' = msgs
          /\ storage' = Save(storage, conversations, groups, msgs, quota)
          /\ pane' = GetMessages(msgs, r.chatId)
          /\ banner' = ""
          /\ last' = Event("historyOk", r.chatId,
                           IF r.overtaken THEN "overtaken" ELSE "done")
    /\ refreshes' = RemoveAt(OvertakeHistory(refreshes, k), k)
    /\ UNCHANGED <<currentUser, page, refreshDisabled, quota, created, sidebar, currentConversation, currentConversationType,
                   conversations, groups, activeTab,
                   sends, acks, timers, fetches, srvMessages, srvNextId, clock>>

HistoryFailedClears(k) ==
    /\ k \in 1..Len(refreshes)
    /\ refreshes[k].pc = "error"
    /\ messages' = SetMessages(messages, refreshes[k].chatId, <<>>)
    /\ storage' = Save(storage, conversations, groups, messages', {})
    /\ refreshes' = RemoveAt(refreshes, k)
    /\ \E kind \in {"network", "http", "parse"} :
           last' = Event("historyFailed", refreshes[k].chatId, kind)
    /\ UNCHANGED <<currentUser, page, refreshDisabled, pane, quota, created, sidebar, currentConversation, currentConversationType,
                   conversations, groups, activeTab, banner,
                   sends, acks, timers, fetches, srvMessages, srvNextId, clock>>

\* _refreshMessages / loadMessages after the awaits, fetch rejected, response
\* not ok, or response.json() rejected
HistoryFailed(k) ==
    /\ k \in 1..Len(refreshes)
    /\ refreshes[k].pc = "error"
    /\ refreshes' = RemoveAt(refreshes, k)
    /\ \E kind \in {"network", "http", "parse"} :
           last' = Event("historyFailed", refreshes[k].chatId, kind)
    /\ UNCHANGED <<currentUser, page, refreshDisabled, pane, quota, created, sidebar, currentConversation, currentConversationType,
                   conversations, groups, messages, activeTab, storage, banner,
                   sends, acks, timers, fetches, srvMessages, srvNextId, clock>>

----------------------------------------------------------------------------
(* ChatConversations *)

\* records of the server's { conversations: [...] } and { groups: [...] }
RawConversation(n, unread) ==
    [ id |-> n, name |-> {}, username |-> {"user"}, last_message |-> {},
      timestamp |-> {}, unread_count |-> IF unread = 0 THEN {} ELSE {unread},
      is_online |-> {} ]

RawGroup(n, unread) ==
    [ id |-> n, name |-> {"group"}, last_message |-> {<<Run("h", 1), Run("i", 1)>>},
      timestamp |-> {1}, unread_count |-> {unread}, member_count |-> {} ]

\* the bodies the server may answer GET /api/messages and GET /api/chats with
ConversationBodies ==
    { <<>>,
      <<RawConversation(1, 0)>>,
      <<RawConversation(1, 2), RawConversation(2, 0)>>,
      <<RawConversation(2, 1), RawConversation(1, 0)>> }

GroupBodies == { <<>>, <<RawGroup(3, 0)>>, <<RawGroup(3, 1)>> }

Bodies(tab) == IF tab = "dm" THEN ConversationBodies ELSE GroupBodies

\* convs.map(c => ({...})) of _fetchMessages
MapConversations(body, c) ==
    [k \in 1..Len(body) |->
        [ id          |-> StringOf(body[k].id),
          name        |-> Coalesce(body[k].name, Coalesce(body[k].username, "Unknown")),
          lastMessage |-> Coalesce(body[k].last_message, <<>>),
          timestamp   |-> Coalesce(body[k].timestamp, DateNow(c)),
          unreadCount |-> Coalesce(body[k].unread_count, 0),
          isOnline    |-> Coalesce(body[k].is_online, FALSE) ]]

\* groups.map(g => ({...})) of _fetchChats
MapGroups(body, c) ==
    [k \in 1..Len(body) |->
        [ id          |-> StringOf(body[k].id),
          name        |-> Coalesce(body[k].name, "Unnamed group"),
          lastMessage |-> Coalesce(body[k].last_message, <<>>),
          timestamp   |-> Coalesce(body[k].timestamp, DateNow(c)),
          unreadCount |-> Coalesce(body[k].unread_count, 0),
          memberCount |-> body[k].member_count ]]

\* ChatConversations.refresh up to its first await: the GET of the active tab
Refresh(tab) ==
    /\ Len(fetches) < MaxFetches
    /\ refreshDisabled' = TRUE
    /\ fetches' = Append(fetches, [tab |-> tab, overtaken |-> FALSE])

TabClickRefreshFirst(tab) ==
    /\ Refresh(activeTab)
    /\ activeTab' = tab
    /\ last' = Event("tabClick", tab, "get")
    /\ UNCHANGED <<currentUser, page, pane, quota, created, sidebar, currentConversation,
                   currentConversationType, conversations, groups, messages, storage,
                   banner, sends, acks, timers, refreshes, srvMessages, srvNextId, clock>>

\* click on a .panel-tab button: setupTabs
TabClick(tab) ==
    /\ activeTab' = tab
    /\ Refresh(tab)
    /\ last' = Event("tabClick", tab, "get")
    /\ UNCHANGED <<currentUser, page, pane, quota, created, sidebar, currentConversation, currentConversationType,
                   conversations, groups, messages, storage, banner,
                   sends, acks, timers, refreshes, srvMessages, srvNextId, clock>>

\* click on #refreshConvsBtn: setupNewButtons
RefreshClick ==
    /\ ~refreshDisabled
    /\ Refresh(activeTab)
    /\ last' = Event("refreshClick", activeTab, "get")
    /\ UNCHANGED <<currentUser, page, pane, quota, created, sidebar, currentConversation, currentConversationType,
                   conversations, groups, messages, activeTab, storage, banner,
                   sends, acks, timers, refreshes, srvMessages, srvNextId, clock>>

FetchOkMerges(k) ==
    /\ k \in 1..Len(fetches)
    /\ \E d \in 0..1, body \in Bodies(fetches[k].tab) :
        LET f     == fetches[k]
            now   == clock + d
            convs == IF f.tab = "dm" THEN conversations \o MapConversations(body, now)
                     ELSE conversations
            grps  == IF f.tab = "dm" THEN groups ELSE groups \o MapGroups(body, now)
        IN /\ now <= MaxClock
           /\ clock' = now
           /\ conversations' = convs
           /\ groups' = grps
           /\ storage' = Save(storage, convs, grps, messages, quota)
           /\ sidebar' = Render(activeTab, convs, grps)
           /\ last' = [op |-> "fetchOk", id |-> f.tab, arg |-> body,
                        res |-> IF f.overtaken THEN "overtaken" ELSE "done"]
    /\ fetches' = RemoveAt(OvertakeFetches(fetches, k), k)
    /\ refreshDisabled' = FALSE
    /\ UNCHANGED <<currentUser, page, pane, quota, created, currentConversation, currentConversationType,
                   messages, activeTab, banner,
                   sends, acks, timers, refreshes, srvMessages, srvNextId>>

\* _fetchMessages / _fetchChats after the awaits: the response of request k
\* arrives, ok, with one of the bodies the server may answer with
FetchOk(k) ==
    /\ k \in 1..Len(fetches)
    /\ \E d \in 0..1, body \in Bodies(fetches[k].tab) :
        LET f     == fetches[k]
            now   == clock + d
            convs == IF f.tab = "dm" THEN MapConversations(body, now) ELSE conversations
            grps  == IF f.tab = "dm" THEN groups ELSE MapGroups(body, now)
        IN /\ now <= MaxClock
           /\ clock' = now
           /\ conversations' = convs
           /\ groups' = grps
           /\ storage' = Save(storage, convs, grps, messages, quota)
           /\ sidebar' = Render(activeTab, convs, grps)
           /\ last' = [op |-> "fetchOk", id |-> f.tab, arg |-> body,
                        res |-> IF f.overtaken THEN "overtaken" ELSE "done"]
    /\ fetches' = RemoveAt(OvertakeFetches(fetches, k), k)
    /\ refreshDisabled' = FALSE
    /\ UNCHANGED <<currentUser, page, pane, quota, created, currentConversation, currentConversationType,
                   messages, activeTab, banner,
                   sends, acks, timers, refreshes, srvMessages, srvNextId>>

\* refresh after the awaits: the fetch of request k is rejected, its response is
\* not ok, or json() is rejected
FetchFailed(k) ==
    /\ k \in 1..Len(fetches)
    /\ fetches' = RemoveAt(fetches, k)
    /\ \E kind \in {"network", "http", "parse"} :
           last' = Event("fetchFailed", fetches[k].tab, kind)
    /\ sidebar' = Render(activeTab, conversations, groups)
    /\ refreshDisabled' = FALSE
    /\ UNCHANGED <<currentUser, page, pane, quota, created, currentConversation, currentConversationType,
                   conversations, groups, messages, activeTab, storage, banner,
                   sends, acks, timers, refreshes, srvMessages, srvNextId, clock>>

ItemsOfBoth(type, convs, grps) == convs \o grps

\* the list open and _markAsRead search
ItemsOf(type, convs, grps) == IF type = "groups" THEN grps ELSE convs

MarkAsReadAll(items, id) ==
    [k \in 1..Len(items) |->
        IF Find(items, id) # 0 /\ items[k].unreadCount > 0
        THEN [items[k] EXCEPT !.unreadCount = 0]
        ELSE items[k]]

MarkAsReadDecrement(items, id) ==
    [k \in 1..Len(items) |->
        IF k = Find(items, id) /\ items[k].unreadCount > 0
        THEN [items[k] EXCEPT !.unreadCount = @ - 1]
        ELSE items[k]]

\* ChatConversations._markAsRead, on the list it searches
MarkAsRead(items, id) ==
    [k \in 1..Len(items) |->
        IF k = Find(items, id) /\ items[k].unreadCount > 0
        THEN [items[k] EXCEPT !.unreadCount = 0]
        ELSE items[k]]

OpenSaveThrows(id, type) ==
    /\ IF Find(ItemsOf(type, conversations, groups), id) = 0
       THEN /\ last' = [op |-> "open", id |-> id, res |-> "notFound", arg |-> <<type>>]
            /\ UNCHANGED <<currentConversation, currentConversationType,
                           conversations, groups, storage, banner, sidebar, pane>>
       ELSE LET items == ItemsOf(type, conversations, groups)
                read  == IF quota = {} THEN MarkAsRead(items, id) ELSE items
                convs == IF type = "groups" THEN conversations ELSE read
                grps  == IF type = "groups" THEN read ELSE groups
            IN /\ currentConversation' = {id}
               /\ currentConversationType' = type
               /\ conversations' = convs
               /\ groups' = grps
               /\ LET opened == Save(storage, conversations, groups, messages, quota)
                  IN storage' = IF read = items THEN opened
                                ELSE Save(opened, convs, grps, messages, quota)
               /\ sidebar' = IF read = items THEN sidebar
                              ELSE Render(activeTab, convs, grps)
               /\ pane' = GetMessages(messages, id)
               /\ banner' = ""
               /\ last' = [op |-> "open", id |-> id, arg |-> <<type>>,
                            res |-> IF read = ItemsOf(type, conversations, groups)
                                    THEN "alreadyRead" ELSE "markedRead"]
    /\ UNCHANGED <<currentUser, page, refreshDisabled, quota, created, messages, activeTab,
                   sends, acks, timers, refreshes, fetches,
                   srvMessages, srvNextId, clock>>

\* ChatConversations.open
Open(id, type) ==
    /\ IF Find(ItemsOf(type, conversations, groups), id) = 0
       THEN /\ last' = [op |-> "open", id |-> id, res |-> "notFound", arg |-> <<type>>]
            /\ UNCHANGED <<currentConversation, currentConversationType,
                           conversations, groups, storage, banner, sidebar, pane>>
       ELSE LET items == ItemsOf(type, conversations, groups)
                read  == MarkAsRead(items, id)
                convs == IF type = "groups" THEN conversations ELSE read
                grps  == IF type = "groups" THEN read ELSE groups
            IN /\ currentConversation' = {id}
               /\ currentConversationType' = type
               /\ conversations' = convs
               /\ groups' = grps
               /\ LET opened == Save(storage, conversations, groups, messages, quota)
                  IN storage' = IF read = items THEN opened
                                ELSE Save(opened, convs, grps, messages, quota)
               /\ sidebar' = IF read = items THEN sidebar
                              ELSE Render(activeTab, convs, grps)
               /\ pane' = GetMessages(messages, id)
               /\ banner' = ""
               /\ last' = [op |-> "open", id |-> id, arg |-> <<type>>,
                            res |-> IF read = ItemsOf(type, conversations, groups)
                                    THEN "alreadyRead" ELSE "markedRead"]
    /\ UNCHANGED <<currentUser, page, refreshDisabled, quota, created, messages, activeTab,
                   sends, acks, timers, refreshes, fetches,
                   srvMessages, srvNextId, clock>>

\* click on a row of the sidebar: open(el.dataset.id, el.dataset.type)
RowClick(k) ==
    /\ k \in 1..Len(sidebar)
    /\ Open(sidebar[k].id, sidebar[k].type)

\* what the user can have typed into #dmRecipientInput or #groupNameInput
NameInputs == { <<>>, <<Run(" ", 1)>>, <<Run(" ", 1), Run("b", 1)>> }

\* those that name a thread
Names == { input \in NameInputs : Trim(input) # <<>> }

\* the trimmed name as the string the thread carries
NameString(s) == CASE s = <<>> -> "" [] s = <<Run("b", 1)>> -> "b" [] OTHER -> "?"

\* Utils.generateId(), for the n-th thread created in the session
LocalId(n) == CASE n = 1 -> "L1" [] n = 2 -> "L2" [] n = 3 -> "L3" [] OTHER -> "L0"

\* the thread object built by _submitDm
NewConversation(id, name, c) ==
    [ id |-> id, name |-> name, lastMessage |-> <<>>, timestamp |-> DateNow(c),
      unreadCount |-> 0, isOnline |-> FALSE ]

\* the thread object built by _submitGroup
NewGroup(id, name, c) ==
    [ id |-> id, name |-> name, lastMessage |-> <<>>, timestamp |-> DateNow(c),
      unreadCount |-> 0, memberCount |-> {1} ]

SubmitAddsToBoth(input, tab) ==
    LET name == Trim(input) IN
    IF name = <<>>
    THEN /\ last' = [op |-> IF tab = "dm" THEN "submitDm" ELSE "submitGroup",
                      id |-> "", res |-> "noName", arg |-> input]
         /\ UNCHANGED vars
    ELSE /\ created < MaxCreates
         /\ \E d \in 0..1 :
             LET now   == clock + d
                 id    == LocalId(created + 1)
                 convs == IF tab = "dm"
                          THEN <<NewConversation(id, NameString(name), now)>> \o conversations
                          ELSE conversations
                 grps  == <<NewGroup(id, NameString(name), now)>> \o groups
                 msgs  == SetMessages(messages, id, <<>>)
             IN /\ now <= MaxClock
                /\ clock' = now
                /\ created' = created + 1
                /\ conversations' = convs
                /\ groups' = grps
                /\ messages' = msgs
                /\ storage' = Save(Save(storage, convs, grps, msgs, quota),
                                   convs, grps, msgs, quota)
                /\ activeTab' = tab
                /\ sidebar' = Render(tab, convs, grps)
                /\ currentConversation' = {id}
                /\ currentConversationType' = tab
                /\ pane' = GetMessages(msgs, id)
                /\ banner' = ""
                /\ last' = [op |-> IF tab = "dm" THEN "submitDm" ELSE "submitGroup",
                             id |-> id, res |-> "created", arg |-> input]
         /\ UNCHANGED <<currentUser, page, refreshDisabled, quota, sends, acks, timers, refreshes, fetches,
                        srvMessages, srvNextId>>

\* _submitDm / _submitGroup: addConversation or addGroup, save, _switchTab, open
SubmitAppends(input, tab) ==
    LET name == Trim(input) IN
    IF name = <<>>
    THEN /\ last' = [op |-> IF tab = "dm" THEN "submitDm" ELSE "submitGroup",
                      id |-> "", res |-> "noName", arg |-> input]
         /\ UNCHANGED vars
    ELSE /\ created < MaxCreates
         /\ \E d \in 0..1 :
             LET now   == clock + d
                 id    == LocalId(created + 1)
                 convs == IF tab = "dm"
                          THEN Append(conversations, NewConversation(id, NameString(name), now))
                          ELSE conversations
                 grps  == IF tab = "dm" THEN groups
                          ELSE Append(groups, NewGroup(id, NameString(name), now))
                 msgs  == SetMessages(messages, id, <<>>)
             IN /\ now <= MaxClock
                /\ clock' = now
                /\ created' = created + 1
                /\ conversations' = convs
                /\ groups' = grps
                /\ messages' = msgs
                /\ storage' = Save(Save(storage, convs, grps, msgs, quota),
                                   convs, grps, msgs, quota)
                /\ activeTab' = tab
                /\ sidebar' = Render(tab, convs, grps)
                /\ currentConversation' = {id}
                /\ currentConversationType' = tab
                /\ pane' = GetMessages(msgs, id)
                /\ banner' = ""
                /\ last' = [op |-> IF tab = "dm" THEN "submitDm" ELSE "submitGroup",
                             id |-> id, res |-> "created", arg |-> input]
         /\ UNCHANGED <<currentUser, page, refreshDisabled, quota, sends, acks, timers, refreshes, fetches,
                        srvMessages, srvNextId>>

Submit(input, tab) ==
    LET name == Trim(input) IN
    IF name = <<>>
    THEN /\ last' = [op |-> IF tab = "dm" THEN "submitDm" ELSE "submitGroup",
                      id |-> "", res |-> "noName", arg |-> input]
         /\ UNCHANGED vars
    ELSE /\ created < MaxCreates
         /\ \E d \in 0..1 :
             LET now   == clock + d
                 id    == LocalId(created + 1)
                 convs == IF tab = "dm"
                          THEN <<NewConversation(id, NameString(name), now)>> \o conversations
                          ELSE conversations
                 grps  == IF tab = "dm" THEN groups
                          ELSE <<NewGroup(id, NameString(name), now)>> \o groups
                 msgs  == SetMessages(messages, id, <<>>)
             IN /\ now <= MaxClock
                /\ clock' = now
                /\ created' = created + 1
                /\ conversations' = convs
                /\ groups' = grps
                /\ messages' = msgs
                /\ storage' = Save(Save(storage, convs, grps, msgs, quota),
                                   convs, grps, msgs, quota)
                /\ activeTab' = tab
                /\ sidebar' = Render(tab, convs, grps)
                /\ currentConversation' = {id}
                /\ currentConversationType' = tab
                /\ pane' = GetMessages(msgs, id)
                /\ banner' = ""
                /\ last' = [op |-> IF tab = "dm" THEN "submitDm" ELSE "submitGroup",
                             id |-> id, res |-> "created", arg |-> input]
         /\ UNCHANGED <<currentUser, page, refreshDisabled, quota, sends, acks, timers, refreshes, fetches,
                        srvMessages, srvNextId>>

\* click on #newDmSubmitBtn
SubmitDm(input) == Submit(input, "dm")

\* click on #newGroupSubmitBtn
SubmitGroup(input) == Submit(input, "groups")

\* the ids a caller of open can pass: those the server uses and the local ones
OpenIds == ThreadIds \cup {LocalId(n) : n \in 1..MaxCreates}

\* ChatConversations.open called with any id and either type
OpenCall == \E id \in OpenIds, type \in {"dm", "groups"} : Open(id, type)

\* what can stop fitting: the value of one key, or anything at all
QuotaKeys == {{key} : key \in StorageKeys} \cup {StorageKeys}

\* localStorage reaches its quota (other pages of the origin write to the same
\* storage): from now on the values of these keys no longer fit
QuotaReached(keys) ==
    /\ quota = {}
    /\ quota' = keys
    /\ last' = Event("quota", "", "reached")
    /\ UNCHANGED <<currentUser, page, refreshDisabled, pane, created, sidebar, currentConversation,
                   currentConversationType, conversations, groups, messages,
                   activeTab, storage, banner, sends, acks, timers, refreshes,
                   fetches, srvMessages, srvNextId, clock>>

\* the banner of _showSendError removes itself after 4 s
BannerTimeout ==
    /\ banner # ""
    /\ banner' = ""
    /\ last' = Event("bannerTimeout", "", "")
    /\ UNCHANGED <<currentUser, page, refreshDisabled, pane, quota, created, sidebar, currentConversation, currentConversationType,
                   conversations, groups, messages, activeTab, storage,
                   sends, acks, timers, refreshes, fetches,
                   srvMessages, srvNextId, clock>>

----------------------------------------------------------------------------
(* The initialiser of the chat page *)

EmptyMap == [k \in {} |-> <<>>]

NoStorage == [conversations |-> {}, groups |-> {}, messages |-> {}]

\* Utils.removeStorage
RemoveStorage(st, key) == [st EXCEPT ![key] = {}]

\* the beforeunload handler: messages, conversations and groups are removed
Purge(st) ==
    RemoveStorage(RemoveStorage(RemoveStorage(st, "messages"), "conversations"), "groups")

\* Utils.getStorage(key) || fallback: the stored value parsed, the fallback if absent
GetStorage(st, key, fallback) ==
    IF st[key] = {} THEN fallback ELSE JsonParse(CHOOSE item \in st[key] : TRUE)

\* ChatState.load: the three partitions as read from the cache
Load(st) ==
    [ conversations |-> GetStorage(st, "conversations", <<>>),
      groups        |-> GetStorage(st, "groups", <<>>),
      messages      |-> GetStorage(st, "messages", EmptyMap) ]

\* the initialiser from the answer of GET /api/profile to its second await:
\* ChatState.currentUser, the key user, ChatState.load(), the setup of the
\* handlers, ChatConversations.refresh() up to its fetch
Profile(user, res) ==
    /\ page.pc = "profile"
    /\ currentUser' = user
    /\ page' = [page EXCEPT !.pc = "refresh",
                            !.user = IF user = {} THEN @ ELSE user]
    /\ conversations' = Load(storage).conversations
    /\ groups' = Load(storage).groups
    /\ messages' = Load(storage).messages
    /\ refreshDisabled' = TRUE
    /\ last' = Event("profile", "", res)
    /\ UNCHANGED <<currentConversation, currentConversationType, activeTab, storage,
                   banner, sends, acks, timers, refreshes, fetches, srvMessages,
                   srvNextId, clock, sidebar, quota, created, pane>>

\* GET /api/profile answered ok with the user_id of the session
ProfileOk == Profile({Me}, "ok")

\* GET /api/profile rejected or not ok: ChatState.currentUser stays null
ProfileFailed == Profile({}, "failed")

\* the end of the initialiser, after await ChatConversations.refresh(): on the
\* collections the refresh left, open(currentConversation.id, type) if a thread is
\* selected, then the beforeunload handler is registered
BootDone(fetched, c, saved, res, body) ==
    LET type  == currentConversationType
        items == ItemsOf(type, fetched, groups)
        found == \E id \in currentConversation : Find(items, id) # 0
        read  == IF found
                 THEN MarkAsRead(items, CHOOSE id \in currentConversation : TRUE)
                 ELSE items
        convs == IF type = "groups" THEN fetched ELSE read
        grps  == IF type = "groups" THEN read ELSE groups
        opened == IF found THEN Save(saved, fetched, groups, messages, quota) ELSE saved
    IN /\ page.pc = "refresh"
       /\ c <= MaxClock
       /\ clock' = c
       /\ conversations' = convs
       /\ groups' = grps
       /\ storage' = IF read = items THEN opened
                      ELSE Save(opened, convs, grps, messages, quota)
       /\ sidebar' = Render(activeTab, convs, grps)
       /\ banner' = IF found THEN "" ELSE banner
       /\ pane' = IF found
                  THEN GetMessages(messages, CHOOSE id \in currentConversation : TRUE)
                  ELSE pane
       /\ refreshDisabled' = FALSE
       /\ page' = [page EXCEPT !.pc = "ready"]
       /\ last' = [op |-> "bootDone", id |-> "dm", res |-> res, arg |-> body]
       /\ UNCHANGED <<currentUser, currentConversation, currentConversationType,
                      messages, activeTab, sends, acks, timers, refreshes, fetches,
                      srvMessages, srvNextId, quota, created>>

\* the refresh of the initialiser is answered ok: _fetchMessages, then the end
BootRefreshOk ==
    \E d \in 0..1, body \in ConversationBodies :
        LET fetched == MapConversations(body, clock + d)
        IN BootDone(fetched, clock + d,
                    Save(storage, fetched, groups, messages, quota), "ok", body)

\* the refresh of the initialiser fails: its catch renders, then the end
BootRefreshFailed ==
    BootDone(conversations, clock, storage, "failed", <<>>)

\* the user leaves the page and the chat page is loaded again, up to the first
\* await of its initialiser: the beforeunload handler runs if the initialiser of
\* the page that is left had registered it; the new page starts with the initial
\* ChatState and nothing outstanding
Unload ==
    /\ page.loads < MaxLoads
    /\ storage' = IF page.pc = "ready" THEN Purge(storage) ELSE storage
    /\ page' = [pc |-> "profile", user |-> page.user, loads |-> page.loads + 1,
                left |-> currentConversation]
    /\ currentUser' = {}
    /\ currentConversation' = {}
    /\ currentConversationType' = "dm"
    /\ conversations' = <<>>
    /\ groups' = <<>>
    /\ messages' = EmptyMap
    /\ activeTab' = "dm"
    /\ banner' = ""
    /\ sends' = <<>>
    /\ acks' = <<>>
    /\ timers' = <<>>
    /\ refreshes' = <<>>
    /\ fetches' = <<>>
    /\ sidebar' = <<>>
    /\ refreshDisabled' = FALSE
    /\ pane' = <<>>
    /\ last' = Event("unload", "", IF page.pc = "ready" THEN "purged" ELSE "kept")
    /\ UNCHANGED <<srvMessages, srvNextId, clock, quota, created>>

----------------------------------------------------------------------------
(* Specifications *)

\* the first page load once its initialiser has run to the end: identity stored
ReadyPage == [pc |-> "ready", user |-> {Me}, loads |-> 1, left |-> {}]

InitEmpty ==
    /\ currentUser = {Me}
    /\ currentConversation = {}
    /\ currentConversationType = "dm"
    /\ conversations = <<>>
    /\ groups = <<>>
    /\ messages = EmptyMap
    /\ activeTab = "dm"
    /\ storage = NoStorage
    /\ banner = ""
    /\ sends = <<>>
    /\ acks = <<>>
    /\ timers = <<>>
    /\ refreshes = <<>>
    /\ fetches = <<>>
    /\ srvMessages = [c \in ChatIds |-> <<>>]
    /\ srvNextId = 1
    /\ clock = MaxClock
    /\ sidebar = <<>>
    /\ quota = {}
    /\ created = 0
    /\ refreshDisabled = FALSE
    /\ pane = <<>>
    /\ page = ReadyPage
    /\ last = Event("init", "", "")

Init == InitEmpty

\* after boot: GET /api/messages answered with two conversations, the first opened
LoadedConversations ==
    MarkAsRead(MapConversations(<<RawConversation(1, 2), RawConversation(2, 0)>>, 1), "1")

InitLoaded ==
    /\ currentUser = {Me}
    /\ currentConversation = {"1"}
    /\ currentConversationType = "dm"
    /\ conversations = LoadedConversations
    /\ groups = <<>>
    /\ messages = EmptyMap
    /\ activeTab = "dm"
    /\ storage = Save(NoStorage, LoadedConversations, <<>>, EmptyMap, {})
    /\ banner = ""
    /\ sends = <<>>
    /\ acks = <<>>
    /\ timers = <<>>
    /\ refreshes = <<>>
    /\ fetches = <<>>
    /\ srvMessages = [c \in ChatIds |-> <<>>]
    /\ srvNextId = 1
    /\ clock = MaxClock - 1
    /\ sidebar = RenderList(LoadedConversations, "dm")
    /\ quota = {}
    /\ created = 0
    /\ refreshDisabled = FALSE
    /\ pane = GetMessages(EmptyMap, "1")
    /\ page = ReadyPage
    /\ last = Event("open", "1", "markedRead")

NextMessages ==
    \/ \E input \in ShortInputs : Send(input)
    \/ \E i \in 1..MaxSends : ServeSend(i)
    \/ \E i \in 1..MaxSends : SendOk(i)
    \/ \E i \in 1..MaxSends : SendFailed(i)
    \/ \E k \in 1..MaxSends : TimerFires(k)
    \/ \E k \in 1..MaxRefreshes : ServeHistory(k)
    \/ \E k \in 1..MaxRefreshes : HistoryOk(k)
    \/ \E k \in 1..MaxRefreshes : HistoryFailed(k)

NextValidation ==
    \/ \E input \in Inputs : Send(input)
    \/ \E i \in 1..MaxSends : ServeSend(i)
    \/ \E i \in 1..MaxSends : SendOk(i)
    \/ \E i \in 1..MaxSends : SendFailed(i)
    \/ BannerTimeout

NextConversations ==
    \/ \E tab \in {"dm", "groups"} \ {activeTab} : TabClick(tab)
    \/ RefreshClick
    \/ \E k \in 1..MaxFetches : FetchOk(k)
    \/ \E k \in 1..MaxFetches : FetchFailed(k)
    \/ \E k \in DOMAIN sidebar : RowClick(k)
    \/ \E input \in Names : SubmitDm(input)
    \/ \E input \in Names : SubmitGroup(input)

\* the sidebar used by a user who waits for the list before the next click on a tab
NextSidebar ==
    \/ fetches = <<>> /\ \E tab \in {"dm", "groups"} : TabClick(tab)
    \/ \E k \in 1..MaxFetches : FetchOk(k)
    \/ \E k \in DOMAIN sidebar : RowClick(k)
    \/ \E input \in Names : SubmitDm(input)
    \/ \E input \in Names : SubmitGroup(input)

\* the threads of the sidebar: created, fetched, and opened by any caller
NextThreads ==
    \/ fetches = <<>> /\ \E tab \in {"dm", "groups"} : TabClick(tab)
    \/ \E k \in 1..MaxFetches : FetchOk(k)
    \/ OpenCall
    \/ \E input \in NameInputs : SubmitDm(input)
    \/ \E input \in NameInputs : SubmitGroup(input)

NextRefresh ==
    \/ \E id \in currentConversation : LoadMessages(id)
    \/ \E k \in 1..MaxRefreshes : ServeHistory(k)
    \/ \E k \in 1..MaxRefreshes : HistoryOk(k)
    \/ \E k \in 1..MaxRefreshes : HistoryFailed(k)
    \/ \E tab \in {"dm", "groups"} : TabClick(tab)
    \/ RefreshClick
    \/ \E k \in 1..MaxFetches : FetchOk(k)
    \/ \E k \in 1..MaxFetches : FetchFailed(k)

NextStorage ==
    \/ \E keys \in QuotaKeys : QuotaReached(keys)
    \/ SendButton(<<Run("A", 1)>>)
    \/ \E i \in 1..MaxSends : ServeSend(i)
    \/ \E i \in 1..MaxSends : SendOk(i)
    \/ \E k \in DOMAIN sidebar : RowClick(k)
    \/ \E k \in 1..MaxFetches : FetchOk(k)
    \/ \E input \in Names : SubmitDm(input)

NextSwitch ==
    \/ SendButton(<<Run("A", 1)>>)
    \/ \E i \in 1..MaxSends : ServeSend(i)
    \/ \E i \in 1..MaxSends : SendOk(i)
    \/ \E i \in 1..MaxSends : SendFailed(i)
    \/ \E k \in DOMAIN sidebar : RowClick(k)
    \/ \E k \in 1..MaxSends : TimerFires(k)
    \/ \E k \in 1..MaxRefreshes : ServeHistory(k)
    \/ \E k \in 1..MaxRefreshes : HistoryOk(k)
    \/ \E k \in 1..MaxRefreshes : HistoryFailed(k)

\* after boot, no conversation opened
BootedConversations ==
    MapConversations(<<RawConversation(1, 2), RawConversation(2, 0)>>, 1)

InitBooted ==
    /\ currentUser = {Me}
    /\ currentConversation = {}
    /\ currentConversationType = "dm"
    /\ conversations = BootedConversations
    /\ groups = <<>>
    /\ messages = EmptyMap
    /\ activeTab = "dm"
    /\ storage = Save(NoStorage, BootedConversations, <<>>, EmptyMap, {})
    /\ banner = ""
    /\ sends = <<>>
    /\ acks = <<>>
    /\ timers = <<>>
    /\ refreshes = <<>>
    /\ fetches = <<>>
    /\ srvMessages = [c \in ChatIds |-> <<>>]
    /\ srvNextId = 1
    /\ clock = MaxClock
    /\ sidebar = RenderList(BootedConversations, "dm")
    /\ quota = {}
    /\ created = 0
    /\ refreshDisabled = FALSE
    /\ pane = <<>>
    /\ page = ReadyPage
    /\ last = [op |-> "fetchOk", id |-> "dm", res |-> "done",
               arg |-> <<RawConversation(1, 2), RawConversation(2, 0)>>]

\* during boot: nothing persisted, the refresh of the initialiser awaits its response
InitBooting ==
    /\ currentUser = {Me}
    /\ currentConversation = {}
    /\ currentConversationType = "dm"
    /\ conversations = <<>>
    /\ groups = <<>>
    /\ messages = EmptyMap
    /\ activeTab = "dm"
    /\ storage = NoStorage
    /\ banner = ""
    /\ sends = <<>>
    /\ acks = <<>>
    /\ timers = <<>>
    /\ refreshes = <<>>
    /\ fetches = <<[tab |-> "dm", overtaken |-> FALSE]>>
    /\ srvMessages = [c \in ChatIds |-> <<>>]
    /\ srvNextId = 1
    /\ clock = MaxClock
    /\ sidebar = <<>>
    /\ quota = {}
    /\ created = 0
    /\ refreshDisabled = TRUE
    /\ pane = <<>>
    /\ page = ReadyPage
    /\ last = Event("refresh", "dm", "get")

\* as InitLoaded, with one message of another user in chat 1, loaded into the store
ServerHistory == <<[id |-> 1, content |-> <<Run("A", 1)>>, sent_at |-> 1, sender_id |-> Other]>>

LoadedMessages == SetMessages(EmptyMap, "1", MapFromApi(ServerHistory, {Me}))

InitRefresh ==
    /\ currentUser = {Me}
    /\ currentConversation = {"1"}
    /\ currentConversationType = "dm"
    /\ conversations = LoadedConversations
    /\ groups = <<>>
    /\ messages = LoadedMessages
    /\ activeTab = "dm"
    /\ storage = Save(NoStorage, LoadedConversations, <<>>, LoadedMessages, {})
    /\ banner = ""
    /\ sends = <<>>
    /\ acks = <<>>
    /\ timers = <<>>
    /\ refreshes = <<>>
    /\ fetches = <<>>
    /\ srvMessages = [c \in ChatIds |-> IF c = 1 THEN ServerHistory ELSE <<>>]
    /\ srvNextId = 2
    /\ clock = MaxClock
    /\ sidebar = RenderList(LoadedConversations, "dm")
    /\ quota = {}
    /\ created = 0
    /\ refreshDisabled = FALSE
    /\ pane = GetMessages(LoadedMessages, "1")
    /\ page = ReadyPage
    /\ last = Event("historyOk", "1", "done")

\* sending and the history refresh it schedules, in an opened conversation
SpecMessages == InitLoaded /\ [][NextMessages]_vars

\* the validation of send, with and without a selected conversation
SpecValidation == (InitLoaded \/ InitBooted) /\ [][NextValidation]_vars

\* the persisted cache, with writes that may fail
SpecStorage == InitBooting /\ [][NextStorage]_vars

\* the chat page is loaded for the first time in the session: nothing persisted,
\* the initialiser awaits GET /api/profile; the server holds two messages of chat 1
StoredHistory ==
    <<[id |-> 1, content |-> <<Run("A", 1)>>, sent_at |-> 1, sender_id |-> Other],
      [id |-> 2, content |-> <<Run("B", 1)>>, sent_at |-> 1, sender_id |-> Me]>>

InitPage ==
    /\ currentUser = {}
    /\ currentConversation = {}
    /\ currentConversationType = "dm"
    /\ conversations = <<>>
    /\ groups = <<>>
    /\ messages = EmptyMap
    /\ activeTab = "dm"
    /\ storage = NoStorage
    /\ banner = ""
    /\ sends = <<>>
    /\ acks = <<>>
    /\ timers = <<>>
    /\ refreshes = <<>>
    /\ fetches = <<>>
    /\ srvMessages = [c \in ChatIds |-> IF c = 1 THEN StoredHistory ELSE <<>>]
    /\ srvNextId = 3
    /\ clock = MaxClock
    /\ sidebar = <<>>
    /\ quota = {}
    /\ created = 0
    /\ refreshDisabled = FALSE
    /\ pane = <<>>
    /\ page = [pc |-> "profile", user |-> {}, loads |-> 1, left |-> {}]
    /\ last = Event("init", "", "")

\* loading and leaving the page; #newDmSubmitBtn has its handler once the
\* initialiser has passed setupNewButtons
NextBoot ==
    \/ ProfileOk
    \/ ProfileFailed
    \/ BootRefreshOk
    \/ BootRefreshFailed
    \/ page.pc # "profile" /\ \E input \in Names : SubmitDm(input)
    \/ \E k \in DOMAIN sidebar : RowClick(k)
    \/ Unload

SpecBoot == InitPage /\ [][NextBoot]_vars

\* the persisted cache over two page loads, with sending
NextCache ==
    \/ ProfileOk
    \/ BootRefreshOk
    \/ page.pc = "refresh" /\ \E input \in Names : SubmitGroup(input)
    \/ \E k \in DOMAIN sidebar : RowClick(k)
    \/ SendButton(<<Run("A", 1)>>)
    \/ \E i \in 1..MaxSends : ServeSend(i)
    \/ \E i \in 1..MaxSends : SendOk(i)
    \/ Unload

SpecCache == InitPage /\ [][NextCache]_vars

\* one page load with or without a resolved identity, then sending and the
\* history refresh it schedules
NextIdentity ==
    \/ ProfileOk
    \/ ProfileFailed
    \/ BootRefreshOk
    \/ \E k \in DOMAIN sidebar : RowClick(k)
    \/ SendButton(<<Run("A", 1)>>)
    \/ \E i \in 1..MaxSends : ServeSend(i)
    \/ \E i \in 1..MaxSends : SendOk(i)
    \/ \E k \in 1..MaxSends : TimerFires(k)
    \/ \E k \in 1..MaxRefreshes : ServeHistory(k)
    \/ \E k \in 1..MaxRefreshes : HistoryOk(k)

SpecIdentity == InitPage /\ [][NextIdentity]_vars

\* sending while the user moves between two conversations
SpecSwitch == InitRefresh /\ [][NextSwitch]_vars

\* the event loop runs every timer that is due, and every request is answered or
\* fails, and its response is processed
FairSwitch ==
    /\ WF_vars(\E k \in 1..MaxSends : TimerFires(k))
    /\ WF_vars(\E k \in 1..MaxRefreshes : ServeHistory(k))
    /\ WF_vars(\E k \in 1..MaxRefreshes : HistoryOk(k))
    /\ WF_vars(\E k \in 1..MaxRefreshes : HistoryFailed(k))

SpecSwitchFair == SpecSwitch /\ FairSwitch

\* the sidebar: tabs, collection refresh, opening
SpecConversations == InitEmpty /\ [][NextConversations]_vars

\* the sidebar without overlapping requests
SpecSidebar == InitEmpty /\ [][NextSidebar]_vars

\* creating and opening threads, with open called from outside
SpecThreads == InitEmpty /\ [][NextThreads]_vars

\* the two kinds of refresh, with loadMessages called from outside
SpecRefresh == InitRefresh /\ [][NextRefresh]_vars

\* everything together
Next == NextMessages \/ NextValidation \/ NextRefresh \/ NextConversations
            \/ NextStorage \/ NextSwitch \/ NextBoot \/ NextIdentity \/ NextSidebar
            \/ NextThreads \/ NextCache

Spec == Init /\ [][Next]_vars

----------------------------------------------------------------------------
(* Properties *)

\* the response of send i has not been processed yet
Outstanding(i) == sends[i].pc \in {"await", "ok", "error"}

\* the list shows a message sent by the user with this text
Shows(list, text) == \E k \in 1..Len(list) : list[k].text = text /\ list[k].isSent

\* the input is empty or white space only
IsBlank(input) == \A k \in 1..Len(input) : input[k].ch = " "

\* C1: while the POST of a send is outstanding, the message is in the thread's list.
C1_OptimisticAppend ==
    \A i \in 1..Len(sends) :
        Outstanding(i) => Shows(GetMessages(messages, sends[i].chatId), sends[i].text)

\* C2: once the failure of a send has been processed, the message is in the
\* thread's list.
C2_FailedSendVisible ==
    \A i \in 1..Len(sends) :
        sends[i].pc = "failed"
            => Shows(GetMessages(messages, sends[i].chatId), sends[i].text)

C4_NoDuplicateIds ==
    \A t \in DOMAIN messages :
        \A j, k \in 1..Len(messages[t]) :
            j < k => messages[t][j].id # messages[t][k].id

\* C5: when sends i then j went to the same thread and the acknowledgement of j
\* was processed before that of i, the list right after both holds the entry of i
\* before the entry of j, each under its server-assigned id.
C5_CallOrderKept ==
    \A i, j \in 1..Len(sends) :
        ( /\ i < j
          /\ sends[i].chatId = sends[j].chatId
          /\ sends[i].pc = "done" /\ sends[j].pc = "done"
          /\ last.op = "sendOk"
          /\ Len(acks) >= 2
          /\ acks[Len(acks)] = i /\ acks[Len(acks) - 1] = j )
        => LET list == GetMessages(messages, sends[i].chatId) IN
           \E p, q \in 1..Len(list) :
               /\ p < q
               /\ list[p].id = sends[i].message_id /\ list[p].text = sends[i].text
               /\ list[q].id = sends[j].message_id /\ list[q].text = sends[j].text

\* C6: as long as one send has been invoked, on a thread whose list was empty,
\* the list never holds more than one entry, and once the acknowledgement has
\* been processed it holds exactly one entry, with the acknowledged message_id.
C6_SingleSend ==
    Len(sends) = 1 =>
        LET list == GetMessages(messages, sends[1].chatId) IN
        /\ Len(list) <= 1
        /\ sends[1].pc = "done" =>
               /\ Len(list) = 1
               /\ list[1].id = sends[1].message_id
               /\ list[1].text = sends[1].text

C6_Witness ==
    /\ Len(sends) = 1
    /\ sends[1].pc = "done"
    /\ last.op = "sendOk"
    /\ Len(GetMessages(messages, sends[1].chatId)) = 1

\* C7: a send whose input is empty or white space only changes neither the store,
\* the selection nor the persisted cache, and issues no request.
C7_BlankRejected ==
    [][ (last'.op = "send" /\ IsBlank(last'.arg))
            => UNCHANGED <<conversations, groups, messages, storage,
                           currentConversation, currentConversationType,
                           sends, refreshes, fetches, timers, banner>> ]_vars

C7_Witness ==
    /\ last.op = "send"
    /\ last.arg = <<Run(" ", 2)>>
    /\ currentConversation # {}

\* C8: a send whose text is longer than MaxTextLength changes neither the store
\* nor the persisted cache, issues no request, and shows an error.
C8_TooLongRejected ==
    [][ (last'.op = "send" /\ StrLen(Trim(last'.arg)) > MaxTextLength)
            => /\ UNCHANGED <<conversations, groups, messages, storage,
                              currentConversation, currentConversationType,
                              sends, refreshes, fetches, timers>>
               /\ banner' \in {TooLongMsg, NoConversationMsg}
               /\ currentConversation # {} => banner' = TooLongMsg ]_vars

C8_Witness ==
    /\ last.op = "send"
    /\ StrLen(Trim(last.arg)) = MaxTextLength + 1
    /\ currentConversation # {}
    /\ banner = TooLongMsg

\* C9: no step of a refresh that fails (its call, the failing of its request, its
\* failure handler) changes the collections, the message lists or the persisted
\* cache.
C9_FailedRefreshLeavesStore ==
    [][ ( \/ last'.op \in {"historyFailed", "fetchFailed"}
          \/ last'.op \in {"loadMessages", "timer", "tabClick", "refreshClick"}
          \/ (last'.op = "serveHistory" /\ last'.res # "ok") )
            => UNCHANGED <<conversations, groups, messages, storage>> ]_vars

C9_Witness ==
    /\ last.op = "historyFailed"
    /\ last.res = "parse"
    /\ GetMessages(messages, last.id) # <<>>
    /\ conversations # <<>>

\* C10: right after open has selected a thread, the thread's unreadCount is 0.
C10_OpenClearsUnread ==
    (last.op = "open" /\ last.res # "notFound") =>
        LET items == ItemsOf(currentConversationType, conversations, groups)
            k     == Find(items, last.id)
        IN /\ currentConversation = {last.id}
           /\ k # 0
           /\ items[k].unreadCount = 0

C10_Witness ==
    /\ last.op = "open"
    /\ last.res = "markedRead"
    /\ currentConversationType = "groups"

\* the selected thread is not found in the collection its recorded type does not name
SelectionTyped ==
    \A id \in currentConversation :
        /\ currentConversationType = "dm" => Find(groups, id) = 0
        /\ currentConversationType = "groups" => Find(conversations, id) = 0

\* C11, as stated: every row of the sidebar is a row of the active tab's collection,
\* and the selected thread is not paired with the other collection's type.
C11_SidebarOfActiveTab ==
    /\ \A k \in DOMAIN sidebar : sidebar[k].type = activeTab
    /\ SelectionTyped

\* C11, amended: the rows of the sidebar are the items of one collection, in its
\* order; it is the active tab's collection whenever no collection request is
\* outstanding; the selected thread is not paired with the other collection's type.
C11_SidebarOfOneCollection ==
    /\ \A k \in DOMAIN sidebar :
           /\ sidebar[k].type = sidebar[1].type
           /\ LET items == ItemsOf(sidebar[1].type, conversations, groups)
              IN Len(items) = Len(sidebar) /\ items[k].id = sidebar[k].id
    /\ fetches = <<>> => \A k \in DOMAIN sidebar : sidebar[k].type = activeTab
    /\ SelectionTyped

C11_Witness ==
    /\ activeTab = "groups"
    /\ fetches = <<>>
    /\ sidebar # <<>>
    /\ currentConversation # {}
    /\ currentConversationType = "dm"
    /\ created > 0

\* the step issues one collection request, for this tab
Requests(tab) ==
    /\ Len(fetches') = Len(fetches) + 1
    /\ SubSeq(fetches', 1, Len(fetches)) = fetches
    /\ fetches'[Len(fetches')].tab = tab

\* C12, as stated: every step that changes the active tab issues a collection
\* request for the newly active tab.
C12_SwitchRefreshes ==
    [][ activeTab' # activeTab => Requests(activeTab') ]_vars

\* C12, amended: every click on a tab makes that tab active and issues a collection
\* request for it; the switch that follows the creation of a thread issues none.
C12_TabClickRefreshes ==
    [][ /\ last'.op = "tabClick" => (activeTab' = last'.id /\ Requests(last'.id))
        /\ (last'.op \in {"submitDm", "submitGroup"} /\ last'.res = "created")
               => UNCHANGED fetches ]_vars

C12_Witness ==
    /\ last.op = "tabClick"
    /\ last.id = "groups"
    /\ activeTab = "groups"
    /\ Len(fetches) = 2
    /\ fetches[1].tab = "dm"
    /\ fetches[2].tab = "groups"

\* C13: no step of a collection refresh (its call, the handling of its response or
\* of its failure) rewrites the collection that is not the active one.
C13_OtherCollectionUntouched ==
    [][ last'.op \in {"tabClick", "refreshClick", "fetchOk", "fetchFailed"}
            => /\ activeTab' = "groups" => conversations' = conversations
               /\ activeTab' = "dm" => groups' = groups ]_vars

\* C14: right after the response of a collection request has been applied, the
\* collection it was issued for holds one thread per record of the response, in
\* the order of the response, and nothing else.
C14_CollectionReplaced ==
    last.op = "fetchOk" =>
        LET body == last.arg
            coll == IF last.id = "dm" THEN conversations ELSE groups
        IN /\ Len(coll) = Len(body)
           /\ \A k \in 1..Len(body) :
                  /\ coll[k].id = StringOf(body[k].id)
                  /\ {coll[k].lastMessage} = body[k].last_message \cup
                         (IF body[k].last_message = {} THEN {<<>>} ELSE {})
                  /\ {coll[k].unreadCount} = body[k].unread_count \cup
                         (IF body[k].unread_count = {} THEN {0} ELSE {})

C14_Witness ==
    /\ last.op = "fetchOk"
    /\ last.id = "dm"
    /\ last.arg = <<>>
    /\ conversations = <<>>
    /\ currentConversation \in {{"1"}, {"2"}}

\* C15: the selection is empty or names a thread found in the collection of the
\* recorded type.
C15_SelectionInStore ==
    \A id \in currentConversation :
        Find(ItemsOf(currentConversationType, conversations, groups), id) # 0

\* C16: the response of a request that was issued before another request for the
\* same target whose response has already been applied is discarded: processing
\* it changes neither the collections nor the message lists.
C16_StaleResponseDiscarded ==
    [][ (last'.op \in {"fetchOk", "historyOk"} /\ last'.res = "overtaken")
            => UNCHANGED <<conversations, groups, messages>> ]_vars

\* C19: no step removes a thread from the collection it is in.
C19_ThreadsNeverRemoved ==
    [][ /\ \A k \in 1..Len(conversations) : Find(conversations', conversations[k].id) # 0
        /\ \A k \in 1..Len(groups) : Find(groups', groups[k].id) # 0 ]_vars

\* C20: every thread's message list is ordered non-decreasingly by timestamp.
C20_OrderedByTimestamp ==
    \A t \in DOMAIN messages :
        \A j, k \in 1..Len(messages[t]) :
            j < k => messages[t][j].timestamp <= messages[t][k].timestamp

\* the persisted cache holding all three partitions of a state of the Store
Snapshot(c, g, m) ==
    [ conversations |-> {JsonStringify(c)}, groups |-> {JsonStringify(g)},
      messages |-> {JsonStringify(m)} ]

\* C17: after any step the persisted cache is what it was, or holds all three
\* partitions of the Store as the step leaves it (or, for the first of the two
\* saves of open, as the step found it).
C17_SaveAtomic ==
    [][ \/ storage' = storage
        \/ storage' = Snapshot(conversations', groups', messages')
        \/ storage' = Snapshot(conversations, groups, messages) ]_vars

\* C18: a step whose write to the persisted cache failed, so that the cache
\* differs from the Store, still completes its operation: the acknowledged message
\* is appended and its refresh scheduled, the opened thread is selected and read,
\* the response replaces the collection, the created thread is added and selected.
C18_WriteFailureNotFatal ==
    [][ storage' # Snapshot(conversations', groups', messages') =>
          /\ last'.op = "sendOk" =>
                /\ Len(GetMessages(messages', last'.id))
                       = Len(GetMessages(messages, last'.id)) + 1
                /\ Len(timers') = Len(timers) + 1
                /\ \E i \in 1..Len(sends) : sends[i].pc = "ok" /\ sends'[i].pc = "done"
                /\ sidebar' = Render(activeTab', conversations', groups')
          /\ (last'.op = "open" /\ last'.res # "notFound") =>
                LET items == ItemsOf(currentConversationType', conversations', groups')
                IN /\ currentConversation' = {last'.id}
                   /\ Find(items, last'.id) # 0
                   /\ items[Find(items, last'.id)].unreadCount = 0
          /\ last'.op = "fetchOk" =>
                /\ last'.id = "dm" => conversations' = MapConversations(last'.arg, clock')
                /\ last'.id = "groups" => groups' = MapGroups(last'.arg, clock')
                /\ sidebar' = Render(activeTab', conversations', groups')
          /\ (last'.op = "submitDm" /\ last'.res = "created") =>
                /\ currentConversation' = {last'.id}
                /\ activeTab' = "dm"
                /\ Find(conversations', last'.id) = 1
                /\ last'.id \in DOMAIN messages' ]_vars

C18_Witness ==
    /\ quota = StorageKeys
    /\ last.op = "sendOk"
    /\ storage.messages # {JsonStringify(messages)}
    /\ Len(GetMessages(messages, last.id)) = 1
    /\ \E k \in 1..Len(conversations) : conversations[k].id = last.id

\* the ids of the threads of a collection
Ids(items) == {items[k].id : k \in 1..Len(items)}

SendSteps ==
    { <<"await", "await">>, <<"await", "ok">>, <<"await", "error">>,
      <<"ok", "ok">>, <<"ok", "done">>, <<"error", "error">>, <<"error", "failed">>,
      <<"done", "done">>, <<"failed", "failed">> }

\* C22: a request to the send endpoint is issued only by an invocation of send, one
\* per invocation, the server handles it at most once, and a send whose response was
\* processed stays confirmed or failed: no step puts it back in flight.
C22_SendOnceTerminal ==
    [][ /\ Len(sends') \in {Len(sends), Len(sends) + 1}
        /\ Len(sends') = Len(sends) + 1 => (last'.op = "send" /\ last'.res = "posted")
        /\ \A i \in 1..Len(sends) :
              /\ <<sends[i].pc, sends'[i].pc>> \in SendSteps
              /\ sends'[i].chatId = sends[i].chatId
              /\ sends'[i].text = sends[i].text
        /\ srvNextId' # srvNextId =>
              /\ srvNextId' = srvNextId + 1
              /\ \E i \in 1..Len(sends) : sends[i].pc = "await" /\ sends'[i].pc = "ok" ]_vars

C22_Witness ==
    /\ \E i \in 1..Len(sends) : sends[i].pc = "failed"
    /\ \E i \in 1..Len(sends) : sends[i].pc = "done"
    /\ last.op = "historyOk"

\* C23: once the acknowledgement of a send to thread t has been processed, a
\* history request for t is eventually issued, whatever thread is selected by then;
\* processing the failure of a send sets no timer.
C23_RefreshAfterAck ==
    /\ \A t \in ThreadIds :
          (last.op = "sendOk" /\ last.id = t) ~> (last.op = "timer" /\ last.id = t)
    /\ [][last'.op = "sendFailed" => (timers' = timers /\ refreshes' = refreshes)]_vars

C23_Witness ==
    /\ last.op = "timer"
    /\ currentConversation # {last.id}
    /\ \E k \in 1..Len(refreshes) : refreshes[k].chatId = last.id
    /\ \E i \in 1..Len(sends) : sends[i].pc = "failed"

\* C30: send takes the thread selected when it is invoked, and when its
\* acknowledgement is processed the message is appended to the list of that thread
\* and to no other list, whatever thread is selected by then.
C30_AppendedToInvokedThread ==
    [][ /\ (last'.op = "send" /\ last'.res = "posted") =>
              /\ Len(sends') = Len(sends) + 1
              /\ currentConversation = {sends'[Len(sends')].chatId}
        /\ last'.op = "sendOk" =>
              \E i \in 1..Len(sends) :
                  /\ sends[i].pc = "ok" /\ sends'[i].pc = "done"
                  /\ GetMessages(messages', sends[i].chatId)
                        = Append(GetMessages(messages, sends[i].chatId),
                                 SentMessage(sends[i], currentUser, clock'))
                  /\ \A t \in (DOMAIN messages \cup DOMAIN messages') \ {sends[i].chatId} :
                        GetMessages(messages', t) = GetMessages(messages, t) ]_vars

C30_Witness ==
    /\ last.op = "sendOk"
    /\ currentConversation # {}
    /\ currentConversation # {last.id}
    /\ Len(GetMessages(messages, last.id)) = 2

\* the record the server stores under this message id in this chat, if any
ServerRecords(t, id) ==
    IF ParseInt(t) \in ChatIds
    THEN {srvMessages[ParseInt(t)][k] : k \in {j \in 1..Len(srvMessages[ParseInt(t)]) :
                                                  srvMessages[ParseInt(t)][j].id = id}}
    ELSE {}

\* C24: every message of the Store that the server holds carries the server's
\* sent_at times 1000, and right after a collection response has been applied every
\* thread whose record carries a timestamp holds that timestamp times 1000.
C24_TimestampsScaled ==
    /\ \A t \in DOMAIN messages : \A k \in 1..Len(messages[t]) :
          \A rec \in ServerRecords(t, messages[t][k].id) :
              messages[t][k].timestamp = rec.sent_at * 1000
    /\ last.op = "fetchOk" =>
          LET coll == IF last.id = "dm" THEN conversations ELSE groups
          IN \A k \in 1..Len(last.arg) : \A v \in last.arg[k].timestamp :
                 coll[k].timestamp = v * 1000

\* C25: right after a history response has been applied, a message of the thread
\* is marked as sent exactly when the identity is resolved and its sender is that
\* user; with no identity resolved none is marked as sent.
C25_SentIffOwnSender ==
    last.op = "historyOk" =>
        \A k \in 1..Len(GetMessages(messages, last.id)) :
            LET msg == GetMessages(messages, last.id)[k]
            IN /\ msg.isSent <=> (currentUser # {} /\ msg.sender_id = currentUser)
               /\ currentUser = {} => ~msg.isSent

C25_Witness ==
    /\ last.op = "historyOk"
    /\ currentUser = {}
    /\ page.pc = "ready"
    /\ \E k \in 1..Len(GetMessages(messages, last.id)) :
           GetMessages(messages, last.id)[k].sender_id = {Me}
    /\ \E k \in 1..Len(GetMessages(messages, last.id)) :
           GetMessages(messages, last.id)[k].sender_id = {Other}

\* C27: when the page is left, the keys messages, conversations and groups are
\* absent from the persisted cache afterwards and the key user is as it was.
C27_UnloadPurges ==
    [][ last'.op = "unload" =>
          /\ storage' = NoStorage
          /\ page'.user = page.user ]_vars

\* C29: when the initialiser of a page has finished, its refresh answered, and the
\* thread that was selected when the previous page was left is in the refreshed
\* collection, that thread is selected.
C29_SelectionRestored ==
    (/\ last.op = "bootDone"
     /\ last.res = "ok"
     /\ \E id \in page.left : Find(conversations, id) # 0)
        => currentConversation = page.left

\* the collection after the step shows text as the preview of thread t, with the
\* time of the step, and is otherwise as before the step
Previewed(before, after, t, text, c) ==
    /\ Len(after) = Len(before)
    /\ \A k \in 1..Len(before) :
          IF before[k].id = t
          THEN after[k] = [before[k] EXCEPT !.lastMessage = text, !.timestamp = DateNow(c)]
          ELSE after[k] = before[k]

\* C26: the step that appends an acknowledged message with text x to thread t sets
\* the preview of t to x and its timestamp to the time of the step, and leaves
\* every other thread of both collections as it was.
C26_PreviewFollowsSend ==
    [][ last'.op = "sendOk" =>
          LET list == GetMessages(messages', last'.id)
              text == list[Len(list)].text
          IN /\ Len(list) = Len(GetMessages(messages, last'.id)) + 1
             /\ Previewed(conversations, conversations', last'.id, text, clock')
             /\ Previewed(groups, groups', last'.id, text, clock') ]_vars

C26_Witness ==
    /\ last.op = "sendOk"
    /\ Len(conversations) = 2
    /\ \E k \in 1..2 : /\ conversations[k].id = last.id
                        /\ conversations[k].lastMessage = <<Run("A", 1)>>
                        /\ conversations[k].timestamp = DateNow(clock)
                        /\ conversations[3 - k].lastMessage = <<>>
                        /\ conversations[3 - k].timestamp # DateNow(clock)

\* C28: a call of open leaves all message lists and the collection it does not
\* search as they were, and in the collection it searches nothing differs afterwards
\* but the unreadCount of the thread with the id it was called with.
C28_OpenWritesUnreadOnly ==
    [][ last'.op = "open" =>
          LET type   == IF last'.res = "notFound" THEN "dm" ELSE currentConversationType'
              before == ItemsOf(type, conversations, groups)
              after  == ItemsOf(type, conversations', groups')
          IN /\ messages' = messages
             /\ type = "dm" => groups' = groups
             /\ type = "groups" => conversations' = conversations
             /\ last'.res = "notFound" => conversations' = conversations
             /\ Len(after) = Len(before)
             /\ \A k \in 1..Len(before) :
                   IF before[k].id = last'.id
                   THEN [after[k] EXCEPT !.unreadCount = 0]
                          = [before[k] EXCEPT !.unreadCount = 0]
                   ELSE after[k] = before[k] ]_vars

C28_Witness ==
    /\ last.op = "open"
    /\ last.res # "notFound"
    /\ currentConversationType = "dm"
    /\ Len(groups) > 0
    /\ \E j, k \in 1..Len(conversations) :
           /\ conversations[j].id = last.id
           /\ conversations[k].id # last.id
           /\ conversations[k].unreadCount > 0

\* C31: in every reachable state the list drawn in the message pane is the list
\* of the selected thread: no acknowledgement of a send and no answer to a
\* refresh of the messages of another thread replaces it
C31_PaneShowsSelection ==
    \A id \in currentConversation : pane = GetMessages(messages, id)

\* C32: a send that fails, by a rejected fetch or a response that is not ok,
\* changes neither collection, no message list and no stored key, neither when
\* it is invoked nor when its failure is handled, and leaves no timer and no
\* request behind: the call ends as failed and is not posted again
C32_FailedSendLeavesStore ==
    [][ /\ (last'.op = "send" \/ last'.op = "sendFailed")
            => UNCHANGED <<conversations, groups, messages, storage,
                           timers, refreshes, fetches>>
        /\ last'.op = "sendFailed"
            => /\ Len(sends') = Len(sends)
               /\ \A i \in 1..Len(sends) :
                      /\ sends'[i].pc \in {sends[i].pc, "failed"}
                      /\ sends[i].pc = "failed" => sends'[i].pc = "failed" ]_vars

C32_Witness ==
    /\ last.op = "sendFailed"
    /\ last.res = "http"
    /\ \E i \in 1..Len(sends) : sends[i].pc = "failed" /\ sends[i].chatId = last.id
    /\ messages = LoadedMessages
    /\ timers = <<>>

\* C33: a send of a text that is not blank while no thread is selected appends
\* no message, posts nothing and changes nothing in the store or the persisted
\* cache; it only shows the error asking to select a conversation
C33_NoThreadRejected ==
    [][ (last'.op = "send" /\ currentConversation = {} /\ ~IsBlank(last'.arg))
            => /\ last'.res = "noConversation"
               /\ banner' = NoConversationMsg
               /\ UNCHANGED <<conversations, groups, messages, storage, pane,
                              currentConversation, currentConversationType,
                              sends, acks, refreshes, fetches, timers>> ]_vars

C33_Witness ==
    /\ last.op = "send"
    /\ last.res = "noConversation"
    /\ last.arg = <<Run(" ", 1), Run("B", 1), Run(" ", 1)>>
    /\ currentConversation = {}
    /\ conversations # <<>>
    /\ banner = NoConversationMsg
    /\ sends = <<>>

\* C34: open(id, type) with an id that the collection named by type does not
\* hold changes nothing: selection, recorded type, both collections with their
\* unread counts, the message pane and the persisted cache stay as they are,
\* also when the other collection holds the id
C34_OpenUnknownIsNoOp ==
    [][ ( /\ last'.op = "open"
          /\ last'.id \notin Ids(IF last'.arg[1] = "groups" THEN groups
                                 ELSE conversations) )
            => /\ last'.res = "notFound"
               /\ UNCHANGED vars ]_vars

C34_Witness ==
    /\ last.op = "open"
    /\ last.res = "notFound"
    /\ last.arg = <<"dm">>
    /\ \E k \in 1..Len(groups) : groups[k].id = last.id /\ groups[k].unreadCount > 0
    /\ currentConversation # {}
    /\ currentConversation # {last.id}

\* the three partitions of the Store
Store == [conversations |-> conversations, groups |-> groups, messages |-> messages]

C36_MessageKeysAreThreads ==
    DOMAIN messages \subseteq (Ids(conversations) \cup Ids(groups))

\* C37: the length limit of send counts the characters of the trimmed text and
\* includes the limit: with a thread selected, a text whose trimmed length is at
\* most MaxTextLength is posted as trimmed, whatever white space surrounds it,
\* and one whose trimmed length is MaxTextLength + 1 or more is rejected
C37_LimitOnTrimmedInclusive ==
    [][ (last'.op = "send" /\ currentConversation # {} /\ ~IsBlank(last'.arg))
            => IF StrLen(Trim(last'.arg)) <= MaxTextLength
               THEN /\ last'.res = "posted"
                    /\ Len(sends') = Len(sends) + 1
                    /\ sends'[Len(sends')].text = Trim(last'.arg)
                    /\ banner' = banner
               ELSE /\ last'.res = "tooLong"
                    /\ sends' = sends ]_vars

C37_Witness ==
    /\ last.op = "send"
    /\ last.res = "posted"
    /\ StrLen(last.arg) = MaxTextLength + 2
    /\ sends # <<>>
    /\ StrLen(sends[Len(sends)].text) = MaxTextLength

\* C38: submitting the new-DM or the new-group form with a name that is not blank
\* puts exactly one new thread, with unread count 0, in front of the matching
\* collection and leaves the other collection as it is, gives the thread an empty
\* message list and leaves every other list as it is, makes that collection the
\* active tab without requesting a refresh of it, and selects the new thread;
\* with a blank name nothing changes
C38_CreateThread ==
    [][ last'.op \in {"submitDm", "submitGroup"} =>
          IF IsBlank(last'.arg)
          THEN last'.res = "noName" /\ UNCHANGED vars
          ELSE LET tab == IF last'.op = "submitDm" THEN "dm" ELSE "groups"
                   id  == last'.id
               IN /\ last'.res = "created"
                  /\ id \notin Ids(conversations) \cup Ids(groups)
                  /\ IF tab = "dm"
                     THEN /\ Len(conversations') = Len(conversations) + 1
                          /\ Tail(conversations') = conversations
                          /\ conversations'[1].id = id
                          /\ conversations'[1].unreadCount = 0
                          /\ groups' = groups
                     ELSE /\ Len(groups') = Len(groups) + 1
                          /\ Tail(groups') = groups
                          /\ groups'[1].id = id
                          /\ groups'[1].unreadCount = 0
                          /\ conversations' = conversations
                  /\ DOMAIN messages' = DOMAIN messages \cup {id}
                  /\ messages'[id] = <<>>
                  /\ \A k \in DOMAIN messages \ {id} : messages'[k] = messages[k]
                  /\ activeTab' = tab
                  /\ UNCHANGED <<fetches, refreshes, refreshDisabled>>
                  /\ currentConversation' = {id}
                  /\ currentConversationType' = tab
                  /\ pane' = <<>> ]_vars

C38_Witness ==
    /\ last.op = "submitGroup"
    /\ last.res = "created"
    /\ Len(groups) = 2
    /\ groups[1].id = last.id
    /\ conversations # <<>>
    /\ activeTab = "groups"
    /\ fetches = <<>>
    /\ currentConversation = {last.id}
    /\ last.id \in DOMAIN messages

====
